---- MODULE Spec2Model ----
(***************************************************************************)
(* mcBase64x32: a binary-to-text codec with 11-bit symbols (src/lib.rs).   *)
(* Bytes are naturals 0..255, characters are naturals (code points), a     *)
(* string is a sequence of characters and a token is a short string.       *)
(***************************************************************************)
EXTENDS Naturals, Sequences, FiniteSets

\* ---------------------------------------------------------------- bounds
\* Longest byte sequence encoded: lengths 0..10 give every leftover 0..10,
\* length 11 is the first non-empty one that leaves none.
MaxLen == 12
\* Up to this length every sequence over ByteVals is encoded.
ExhLen == 8
\* Longest byte sequence in the two-observer specification.
DetLen == 3
\* Most two-character chunks in a string handed to decode_rust.
MaxTokens == 2
\* Highest table index a damaged resource is damaged at.
MaxIdx == 1
\* Concurrent callers.
NumThreads == 2

\* ------------------------------------------------------ program constants
MAIN_SIZE == 2048
B64_SIZE == 64
MAIN_BITS == 11
B64_BITS == 6
U8 == 256
U16 == 65536

Pow2(n) == 2 ^ n

\* ----------------------------------------------- configuration resources
\* The two JSON resources compiled into the library: {"encode": [...],
\* "decode": {...}}.  Primary tokens are 2 characters wide, tail tokens 1.
MainToken(i) == << i % 64, 64 + (i \div 64) >>

B64Token(j) == << (5 * j + 3) % 64 >>

BASE_JSON ==
  [ encode |-> [ i \in 1..MAIN_SIZE |-> MainToken(i - 1) ],
    decode |-> [ t \in { MainToken(i) : i \in 0..(MAIN_SIZE - 1) }
                   |-> 64 * (t[2] - 64) + t[1] ] ]

BASE64_JSON ==
  [ encode |-> [ j \in 1..B64_SIZE |-> B64Token(j - 1) ],
    decode |-> [ t \in { B64Token(j) : j \in 0..(B64_SIZE - 1) }
                   |-> CHOOSE j \in 0..(B64_SIZE - 1) : B64Token(j) = t ] ]

\* ------------------------------------------------------------ lazy cells
NoTable == [ encode |-> << >>, decode |-> [ t \in {} |-> 0 ] ]

Uninit == [ once |-> "Incomplete", value |-> NoTable ]

\* serde_json::from_str(..).unwrap(): the document must hold both members
\* of BaseList / Base64List.
from_str(json) ==
  [ ok |-> { "encode", "decode" } \subseteq DOMAIN json, base |-> json ]

\* Variant of try_into that accepts any number of items.
try_into_any(vec, size) == [ ok |-> TRUE, arr |-> vec ]

\* base.encode.try_into().expect(..): the Vec must hold exactly `size`
\* items.  Nothing else is validated; (arr, base.decode) is the table.
try_into(vec, size) == [ ok |-> Len(vec) = size, arr |-> vec ]

conversor(json, size) ==
  LET base == from_str(json)
  IN  IF ~base.ok THEN [ once |-> "Poisoned", value |-> NoTable ]
      ELSE LET arr == try_into(base.base.encode, size)
           IN  IF ~arr.ok THEN [ once |-> "Poisoned", value |-> NoTable ]
               ELSE [ once |-> "Complete",
                      value |-> [ encode |-> arr.arr, decode |-> base.base.decode ] ]

\* Dereferencing a lazy static: the first access runs the initialiser, a
\* later one sees what the first left (the table, or the poisoned Once).
deref(cell, json, size) ==
  IF cell.once = "Incomplete" THEN conversor(json, size) ELSE cell

\* ------------------------------------------------------- table lookups
\* &MAIN_CONVERSOR.0[input as usize]: array indexing, panics out of range.
encode_base(M, input) ==
  IF M.once # "Complete" THEN [ ok |-> FALSE, cause |-> "init", tok |-> << >> ]
  ELSE IF input + 1 \in DOMAIN M.value.encode
    THEN [ ok |-> TRUE, cause |-> "none", tok |-> M.value.encode[input + 1] ]
    ELSE [ ok |-> FALSE, cause |-> "index", tok |-> << >> ]

\* Variant of decode_base that reads a missing key as 0.
decode_base_or_zero(M, input) ==
  IF M.once # "Complete" THEN [ ok |-> FALSE, cause |-> "init", val |-> 0 ]
  ELSE IF input \in DOMAIN M.value.decode
    THEN [ ok |-> TRUE, cause |-> "none", val |-> M.value.decode[input] ]
    ELSE [ ok |-> TRUE, cause |-> "none", val |-> 0 ]

\* MAIN_CONVERSOR.1[&input]: HashMap indexing, panics on a missing key.
decode_base(M, input) ==
  IF M.once # "Complete" THEN [ ok |-> FALSE, cause |-> "init", val |-> 0 ]
  ELSE IF input \in DOMAIN M.value.decode
    THEN [ ok |-> TRUE, cause |-> "none", val |-> M.value.decode[input] ]
    ELSE [ ok |-> FALSE, cause |-> "key", val |-> 0 ]

encode_b64(B, input) ==
  IF B.once # "Complete" THEN [ ok |-> FALSE, cause |-> "init", tok |-> << >> ]
  ELSE IF input + 1 \in DOMAIN B.value.encode
    THEN [ ok |-> TRUE, cause |-> "none", tok |-> B.value.encode[input + 1] ]
    ELSE [ ok |-> FALSE, cause |-> "index", tok |-> << >> ]

decode_b64(B, input) ==
  IF B.once # "Complete" THEN [ ok |-> FALSE, cause |-> "init", val |-> 0 ]
  ELSE IF input \in DOMAIN B.value.decode
    THEN [ ok |-> TRUE, cause |-> "none", val |-> B.value.decode[input] ]
    ELSE [ ok |-> FALSE, cause |-> "key", val |-> 0 ]

\* ----------------------------------------------------------- bit reader
\* Variant of Window that takes the bytes least significant first.
RECURSIVE Window_le(_, _, _)
Window_le(data, first, last) ==
  IF last < first THEN 0
  ELSE data[first + 1] + U8 * Window_le(data, first + 1, last)

\* BitReader::endian(&input[..], BigEndian): bytes first..last of the
\* input (counted from 0) as one number, byte 0 most significant.
RECURSIVE Window(_, _, _)
Window(data, first, last) ==
  IF last < first THEN 0
  ELSE U8 * Window(data, first, last - 1) + data[last + 1]

\* Bits pos .. pos + n - 1 of the stream, the first one most significant.
ReadBits(data, pos, n) ==
  IF n = 0 THEN 0
  ELSE LET first == pos \div 8
           last  == (pos + n - 1) \div 8
           drop  == 8 * (last + 1) - (pos + n)
       IN  (Window(data, first, last) \div Pow2(drop)) % Pow2(n)

\* reader.read::<11, u16>() / reader.read_var::<u16>(n): the next n bits,
\* most significant first; an error when fewer than n bits remain.
read(data, pos, n) ==
  IF pos + n > 8 * Len(data)
    THEN [ ok |-> FALSE, val |-> 0, pos |-> pos ]
    ELSE [ ok |-> TRUE, val |-> ReadBits(data, pos, n), pos |-> pos + n ]

\* ----------------------------------------------------------- bit writer
\* BitWriter::endian(&mut output, BigEndian): `out` is the Vec behind the
\* writer, `acc` the n queued bits (fewer than 8 between writes) that do
\* not yet make a byte, `total` the number of bits written so far.
NewWriter == [ out |-> << >>, acc |-> 0, n |-> 0, total |-> 0 ]

\* Whole bytes leave the queue for the Vec, most significant bits first.
RECURSIVE Drain(_)
Drain(w) ==
  IF w.n < 8 THEN w
  ELSE Drain([ w EXCEPT !.out = Append(@, w.acc \div Pow2(w.n - 8)),
                        !.acc = @ % Pow2(w.n - 8),
                        !.n = @ - 8 ])

PushBits(w, bits, value) ==
  Drain([ w EXCEPT !.acc = @ * Pow2(bits) + value,
                   !.n = @ + bits,
                   !.total = @ + bits ])

\* writer.write_var(bits, value): an error when value does not fit in
\* `bits` bits; otherwise the bits are queued and whole bytes written out.
write_var(w, bits, value) ==
  IF value >= Pow2(bits) THEN [ ok |-> FALSE, w |-> w ]
  ELSE [ ok |-> TRUE, w |-> PushBits(w, bits, value) ]

\* Variant of finalize that byte-aligns: the partial byte is zero-padded
\* and written.
finalize_flush(w) == IF w.n = 0 THEN w.out ELSE Append(w.out, w.acc * Pow2(8 - w.n))

\* What the Vec holds when decode_rust returns it: the writer is never
\* byte-aligned or flushed, so the queued partial byte is not in it.
finalize(w) == w.out

\* ---------------------------------------------------------- encode_rust
total_bits(input) == Len(input) * 8

complete_chunks(input) == total_bits(input) \div MAIN_BITS

bits_left(input) == total_bits(input) % MAIN_BITS

\* Variant of uses_b64 with the comparison off by one.
uses_b64_lt(left) == left < B64_BITS

\* if bits_left <= 6: the leftover goes through the tail table.
uses_b64(left) == left <= B64_BITS

\* Variant of end_data_b64 that shifts as for the primary table.
end_data_b64_wide(extra_bits, left) == ((extra_bits % U8) * Pow2(MAIN_BITS - left)) % U8

\* (extra_bits as u8) << (6 - bits_left), in u8 arithmetic.
end_data_b64(extra_bits, left) == ((extra_bits % U8) * Pow2(B64_BITS - left)) % U8

\* Variant of end_data_base that does not left-justify.
end_data_base_noshift(extra_bits, left) == extra_bits % U16

\* extra_bits << (11 - bits_left), in u16 arithmetic.
end_data_base(extra_bits, left) == (extra_bits * Pow2(MAIN_BITS - left)) % U16

\* A call that panics returns nothing: its output is dropped.
Panic(st, cause) == [ st EXCEPT !.status = "panic", !.cause = cause, !.output = << >> ]

\* The state of a call: `lookups` lists the table accesses made, in order,
\* `bits` the reader's (or writer's) cursor.
NewCall ==
  [ status |-> "ok", cause |-> "none", output |-> << >>, lookups |-> << >>, bits |-> 0 ]

\* for _ in 0..complete_chunks { read 11 bits; push encode_base(val) }
RECURSIVE encode_chunks(_, _, _, _)
encode_chunks(st, k, input, M) ==
  IF k = 0 \/ st.status # "ok" THEN st
  ELSE LET r == read(input, st.bits, MAIN_BITS)
       IN  IF ~r.ok THEN Panic(st, "read")
           ELSE LET e  == encode_base(M, r.val)
                    s1 == [ st EXCEPT !.bits = r.pos,
                                      !.lookups = Append(@, << "main", r.val >>) ]
                IN  IF ~e.ok THEN Panic(s1, e.cause)
                    ELSE encode_chunks([ s1 EXCEPT !.output = @ \o e.tok ],
                                       k - 1, input, M)

\* The leftover bits: one token of the tail table (at most 6 bits left) or
\* of the primary table (7 to 10 bits left).
encode_tail(st, input, M, B) ==
  LET left == bits_left(input)
      r    == read(input, st.bits, left)
  IN  IF ~r.ok THEN Panic(st, "read")
      ELSE IF uses_b64(left)
        THEN LET v  == end_data_b64(r.val, left)
                 e  == encode_b64(B, v)
                 s1 == [ st EXCEPT !.bits = r.pos,
                                   !.lookups = Append(@, << "b64", v >>) ]
             IN  IF ~e.ok THEN Panic(s1, e.cause)
                 ELSE [ s1 EXCEPT !.output = @ \o e.tok ]
        ELSE LET v  == end_data_base(r.val, left)
                 e  == encode_base(M, v)
                 s1 == [ st EXCEPT !.bits = r.pos,
                                   !.lookups = Append(@, << "main", v >>) ]
             IN  IF ~e.ok THEN Panic(s1, e.cause)
                 ELSE [ s1 EXCEPT !.output = @ \o e.tok ]

\* Variant of encode_rust without the early return on bits_left == 0.
encode_rust_no_return(input, M, B) ==
  LET st == encode_chunks(NewCall, complete_chunks(input), input, M)
  IN  IF st.status # "ok" THEN st ELSE encode_tail(st, input, M, B)

\* M and B are the two lazy statics as this call finds (or makes) them on
\* its first access.
encode_rust(input, M, B) ==
  LET st == encode_chunks(NewCall, complete_chunks(input), input, M)
  IN  IF st.status # "ok" THEN st
      ELSE IF bits_left(input) = 0 THEN st
      ELSE encode_tail(st, input, M, B)

\* ---------------------------------------------------------- decode_rust
\* for i in (1..len).step_by(2) { raw_decoded.push(decode_base(chars[i-1..i+1])) }
RECURSIVE decode_pairs(_, _, _, _)
decode_pairs(st, i, chars, M) ==
  IF i >= Len(chars) \/ st.status # "ok" THEN st
  ELSE LET chunk == SubSeq(chars, i, i + 1)
           d     == decode_base(M, chunk)
           s1    == [ st EXCEPT !.lookups = Append(@, << "main", chunk >>) ]
       IN  IF ~d.ok THEN Panic(s1, d.cause)
           ELSE decode_pairs([ s1 EXCEPT !.output = Append(@, d.val) ],
                             i + 2, chars, M)

\* for &numero in &raw_decoded { writer.write_var(11, numero).unwrap() }
RECURSIVE write_all(_, _, _)
write_all(w, raw_decoded, k) ==
  IF k > Len(raw_decoded) \/ ~w.ok THEN w
  ELSE write_all(write_var(w.w, MAIN_BITS, raw_decoded[k]), raw_decoded, k + 1)

decode_rust(input, M, B) ==
  LET raw == decode_pairs(NewCall, 1, input, M)
  IN  IF raw.status # "ok" THEN raw
      ELSE
        LET w1 == write_all([ ok |-> TRUE, w |-> NewWriter ], raw.output, 1)
            s1 == [ raw EXCEPT !.bits = w1.w.total ]
        IN  IF ~w1.ok THEN Panic(s1, "write")
            ELSE IF Len(input) % 2 = 1
              THEN LET last == << input[Len(input)] >>
                       d    == decode_b64(B, last)
                       s2   == [ s1 EXCEPT !.lookups = Append(@, << "b64", last >>) ]
                   IN  IF ~d.ok THEN Panic(s2, d.cause)
                       ELSE LET w2 == write_var(w1.w, B64_BITS, d.val)
                            IN  IF ~w2.ok THEN Panic(s2, "write")
                                ELSE [ s2 EXCEPT !.bits = w2.w.total,
                                                 !.output = finalize(w2.w) ]
              ELSE [ s1 EXCEPT !.output = finalize(w1.w) ]

\* ------------------------------------------------------------------ state
VARIABLES
  resource,        \* the two configuration resources compiled in
  MAIN_CONVERSOR,  \* lazy static: the primary table and its Once
  B64_CONVERSOR,   \* lazy static: the tail table and its Once
  call,            \* the last finished call, its input and what it returned
  memo,            \* an earlier encode call, kept to compare a later one with
  threads,         \* concurrent callers: where each is in its call
  builds           \* how many times each table's initialiser was started

vars == << resource, MAIN_CONVERSOR, B64_CONVERSOR, call, memo, threads, builds >>

NoCall ==
  [ op |-> "none", input |-> << >>, linked |-> FALSE, origin |-> << >>,
    ret |-> NewCall, first |-> {} ]

NoMemo == [ set |-> FALSE, input |-> << >>, output |-> << >>, first |-> {} ]

Threads == 1..NumThreads

NoJob == [ op |-> "none", input |-> << >> ]

Idle ==
  [ pc |-> "idle", job |-> NoJob, need |-> << >>, waited |-> FALSE,
    view |-> [ main |-> Uninit, b64 |-> Uninit ], ret |-> NewCall ]

\* Whether a call accessed table `tbl`.
Touches(ret, tbl) == \E k \in DOMAIN ret.lookups : ret.lookups[k][1] = tbl

\* ----------------------------------------------------------------- inputs
ByteVals == { 180, 79 }

\* Longer inputs follow a few patterns: all zeros, all ones, alternating
\* bytes and three spreads over the byte range.
Patterns == 0..5

PatternByte(p, i) ==
  CASE p = 0 -> 0
    [] p = 1 -> 255
    [] p = 2 -> IF i % 2 = 1 THEN 180 ELSE 79
    [] p = 3 -> (37 * i + 11) % U8
    [] p = 4 -> (7 * i * i + 3 * i + 101) % U8
    [] OTHER -> 255 - ((29 * i) % U8)

Inputs(e, n) ==
  UNION { [ 1..k -> ByteVals ] : k \in 0..e }
    \cup { [ i \in 1..k |-> PatternByte(p, i) ] : p \in Patterns, k \in 0..n }

BadChar == 99

\* Two-character chunks: three tokens of the primary table, a pair of
\* alphabet characters the table does not hold, and a foreign pair.
Pairs ==
  { MainToken(0), MainToken(1189), MainToken(2047), << 64, 0 >>, << BadChar, BadChar >> }

Tails == { << >>, B64Token(0), B64Token(37), B64Token(63), << BadChar >> }

RECURSIVE Chunked(_)
Chunked(n) ==
  IF n = 0 THEN { << >> }
  ELSE LET shorter == Chunked(n - 1)
       IN  shorter \cup { s \o p : s \in shorter, p \in Pairs }

Strings(n) == { s \o t : s \in Chunked(n), t \in Tails }

\* ---------------------------------------------------------------- actions
Init ==
  /\ resource = [ main |-> BASE_JSON, b64 |-> BASE64_JSON ]
  /\ MAIN_CONVERSOR = Uninit
  /\ B64_CONVERSOR = Uninit
  /\ call = NoCall
  /\ memo = NoMemo
  /\ threads = [ t \in Threads |-> Idle ]
  /\ builds = [ main |-> 0, b64 |-> 0 ]

\* Variant of Statics in which the first use leaves the primary Once poisoned.
Statics_poison(ret, M, B) ==
  /\ MAIN_CONVERSOR' = IF Touches(ret, "main")
                          THEN [ once |-> "Poisoned", value |-> NoTable ]
                          ELSE MAIN_CONVERSOR
  /\ B64_CONVERSOR' = IF Touches(ret, "b64") THEN B ELSE B64_CONVERSOR

\* A call leaves behind the lazy statics it accessed, initialised.
Statics(ret, M, B) ==
  /\ MAIN_CONVERSOR' = IF Touches(ret, "main") THEN M ELSE MAIN_CONVERSOR
  /\ B64_CONVERSOR' = IF Touches(ret, "b64") THEN B ELSE B64_CONVERSOR

FirstUse(ret) ==
  { tbl \in { "main", "b64" } :
      /\ Touches(ret, tbl)
      /\ (IF tbl = "main" THEN MAIN_CONVERSOR ELSE B64_CONVERSOR).once = "Incomplete" }

EncodeCall(x) ==
  LET M   == deref(MAIN_CONVERSOR, resource.main, MAIN_SIZE)
      B   == deref(B64_CONVERSOR, resource.b64, B64_SIZE)
      ret == encode_rust(x, M, B)
  IN  /\ call.op = "none"
      /\ Statics(ret, M, B)
      /\ call' = [ op |-> "encode", input |-> x, linked |-> FALSE, origin |-> << >>,
                   ret |-> ret, first |-> FirstUse(ret) ]
      /\ UNCHANGED << resource, memo, threads, builds >>

Decode(s, linked, origin) ==
  LET M   == deref(MAIN_CONVERSOR, resource.main, MAIN_SIZE)
      B   == deref(B64_CONVERSOR, resource.b64, B64_SIZE)
      ret == decode_rust(s, M, B)
  IN  /\ Statics(ret, M, B)
      /\ call' = [ op |-> "decode", input |-> s, linked |-> linked, origin |-> origin,
                   ret |-> ret, first |-> FirstUse(ret) ]
      /\ UNCHANGED << resource, memo, threads, builds >>

\* decode_rust on a string from anywhere.
DecodeCall(s) ==
  /\ call.op = "none"
  /\ Decode(s, FALSE, << >>)

\* The caller takes what the call returned (or its panic).
Return ==
  /\ call.op # "none"
  /\ call' = NoCall
  /\ UNCHANGED << resource, MAIN_CONVERSOR, B64_CONVERSOR, memo, threads, builds >>

\* decode_rust on the string the last encode_rust call returned.
DecodeBack ==
  /\ call.op = "encode"
  /\ call.ret.status = "ok"
  /\ Decode(call.ret.output, TRUE, call.input)

\* The observer keeps one encode call's input and output.
Remember ==
  /\ call.op = "encode"
  /\ call.ret.status = "ok"
  /\ ~memo.set
  /\ memo' = [ set |-> TRUE, input |-> call.input, output |-> call.ret.output,
                first |-> call.first ]
  /\ UNCHANGED << resource, MAIN_CONVERSOR, B64_CONVERSOR, call, threads, builds >>

ByteInputs == Inputs(ExhLen, MaxLen)

StringInputs == Strings(MaxTokens)

Next ==
  \/ \E x \in ByteInputs : EncodeCall(x)
  \/ \E s \in StringInputs : DecodeCall(s)
  \/ DecodeBack
  \/ Return

Spec == Init /\ [][Next]_vars

\* ------------------------------------------- determinism: a second observer
ShortInputs == Inputs(DetLen, 0)

ShortStrings == Strings(1)

NextDet ==
  \/ \E x \in ShortInputs : EncodeCall(x)
  \/ \E s \in ShortStrings : DecodeCall(s)
  \/ DecodeBack
  \/ Return
  \/ Remember

SpecDet == Init /\ [][NextDet]_vars

\* --------------------------------------- table construction, any resource
\* Resources that differ from the shipped ones the ways a corrupt table
\* can: an entry missing or added, a duplicate token, a decode mapping
\* that is not the inverse, a key or the whole decode member missing.
Indices == 0..MaxIdx

IndexPairs == { p \in Indices \X Indices : p[1] # p[2] }

Damaged(json) ==
  LET n == Len(json.encode)
  IN  { json,
        [ json EXCEPT !.encode = SubSeq(@, 1, n - 1) ],
        [ json EXCEPT !.encode = Append(@, << BadChar, BadChar >>) ],
        [ encode |-> json.encode ] }
      \cup { [ json EXCEPT !.encode[p[1] + 1] = json.encode[p[2] + 1] ] : p \in IndexPairs }
      \cup { [ json EXCEPT !.decode[json.encode[p[1] + 1]] = p[2] ] : p \in IndexPairs }
      \cup { [ json EXCEPT !.decode =
                 [ t \in DOMAIN json.decode \ { json.encode[k + 1] } |-> json.decode[t] ] ] :
               k \in Indices }

Resources ==
  { [ main |-> m, b64 |-> BASE64_JSON ] : m \in Damaged(BASE_JSON) }
    \cup { [ main |-> BASE_JSON, b64 |-> b ] : b \in Damaged(BASE64_JSON) }

InitTable ==
  /\ resource \in Resources
  /\ MAIN_CONVERSOR = Uninit
  /\ B64_CONVERSOR = Uninit
  /\ call = NoCall
  /\ memo = NoMemo
  /\ threads = [ t \in Threads |-> Idle ]
  /\ builds = [ main |-> 0, b64 |-> 0 ]

TableInputs == Inputs(2, 0)

NextTable ==
  \/ \E x \in TableInputs : EncodeCall(x)
  \/ \E s \in ShortStrings : DecodeCall(s)
  \/ DecodeBack
  \/ Return

SpecTable == InitTable /\ [][NextTable]_vars

\* ------------------------------------------------ contended first access
Cell(tbl) == IF tbl = "main" THEN MAIN_CONVERSOR ELSE B64_CONVERSOR

SizeOf(tbl) == IF tbl = "main" THEN MAIN_SIZE ELSE B64_SIZE

SetCell(tbl, v) ==
  /\ MAIN_CONVERSOR' = IF tbl = "main" THEN v ELSE MAIN_CONVERSOR
  /\ B64_CONVERSOR' = IF tbl = "b64" THEN v ELSE B64_CONVERSOR

\* The tables a call accesses, in the order of their first access.
RECURSIVE Accesses(_, _)
Accesses(lookups, seen) ==
  IF lookups = << >> THEN << >>
  ELSE IF Head(lookups)[1] \in seen THEN Accesses(Tail(lookups), seen)
  ELSE << Head(lookups)[1] >> \o Accesses(Tail(lookups), seen \cup { Head(lookups)[1] })

Run(op, input, M, B) ==
  IF op = "encode" THEN encode_rust(input, M, B) ELSE decode_rust(input, M, B)

Jobs ==
  { [ op |-> "encode", input |-> << >> ],
    [ op |-> "encode", input |-> << 180, 79 >> ],
    [ op |-> "decode", input |-> B64Token(37) ] }

\* A caller enters encode_rust or decode_rust.
Begin(t, j) ==
  /\ threads[t].pc = "idle"
  /\ threads' = [ threads EXCEPT ![t] =
       [ Idle EXCEPT !.pc = "call", !.job = j,
           !.need = Accesses(Run(j.op, j.input,
                                 conversor(resource.main, MAIN_SIZE),
                                 conversor(resource.b64, B64_SIZE)).lookups, {}) ] ]
  /\ UNCHANGED << resource, MAIN_CONVERSOR, B64_CONVERSOR, call, memo, builds >>

\* Variant of MayRead that does not wait for a running initialiser.
MayRead_early(cell) == cell.once # "Incomplete"

\* Once::call_once lets a caller through only when the Once is complete;
\* while another caller runs the initialiser it blocks.
MayRead(cell) == cell.once \in { "Complete", "Poisoned" }

\* Once::call_once: the first caller takes the Once and runs the initialiser.
CallOnce(t) ==
  /\ threads[t].pc = "call"
  /\ threads[t].need # << >>
  /\ Cell(Head(threads[t].need)).once = "Incomplete"
  /\ SetCell(Head(threads[t].need), [ once |-> "Running", value |-> NoTable ])
  /\ builds' = [ builds EXCEPT ![Head(threads[t].need)] = @ + 1 ]
  /\ threads' = [ threads EXCEPT ![t].pc = "init" ]
  /\ UNCHANGED << resource, call, memo >>

\* A caller that finds the initialiser running parks on the Once.
Wait(t) ==
  /\ threads[t].pc = "call"
  /\ threads[t].need # << >>
  /\ Cell(Head(threads[t].need)).once = "Running"
  /\ ~threads[t].waited
  /\ threads' = [ threads EXCEPT ![t].waited = TRUE ]
  /\ UNCHANGED << resource, MAIN_CONVERSOR, B64_CONVERSOR, call, memo, builds >>

\* The initialiser parses the resource and the value is moved into the
\* static's cell, its first member first; a panic poisons the Once.
InitValue(t) ==
  LET tbl == Head(threads[t].need)
      v   == conversor(resource[tbl], SizeOf(tbl))
  IN  /\ threads[t].pc = "init"
      /\ IF v.once = "Complete"
           THEN /\ SetCell(tbl, [ once |-> "Running",
                                  value |-> [ v.value EXCEPT !.decode = NoTable.decode ] ])
                /\ threads' = [ threads EXCEPT ![t].pc = "store" ]
           ELSE /\ SetCell(tbl, v)
                /\ threads' = [ threads EXCEPT ![t].pc = "done",
                                               ![t].ret = Panic(NewCall, "init") ]
      /\ UNCHANGED << resource, call, memo, builds >>

\* The rest of the value is in place and the Once is marked complete.
Store(t) ==
  LET tbl == Head(threads[t].need)
  IN  /\ threads[t].pc = "store"
      /\ SetCell(tbl, conversor(resource[tbl], SizeOf(tbl)))
      /\ threads' = [ threads EXCEPT ![t].pc = "call" ]
      /\ UNCHANGED << resource, call, memo, builds >>

\* A caller gets its reference to the table.
Access(t) ==
  LET tbl == Head(threads[t].need)
  IN  /\ threads[t].pc = "call"
      /\ threads[t].need # << >>
      /\ MayRead(Cell(tbl))
      /\ threads' = [ threads EXCEPT ![t].view[tbl] = Cell(tbl),
                                     ![t].need = Tail(@) ]
      /\ UNCHANGED << resource, MAIN_CONVERSOR, B64_CONVERSOR, call, memo, builds >>

\* The call runs to its end on the tables it was given.
Finish(t) ==
  /\ threads[t].pc = "call"
  /\ threads[t].need = << >>
  /\ threads' = [ threads EXCEPT
       ![t].pc = "done",
       ![t].ret = Run(threads[t].job.op, threads[t].job.input,
                      threads[t].view.main, threads[t].view.b64) ]
  /\ UNCHANGED << resource, MAIN_CONVERSOR, B64_CONVERSOR, call, memo, builds >>

NextConc ==
  \/ \E t \in Threads, j \in Jobs : Begin(t, j)
  \/ \E t \in Threads : CallOnce(t)
  \/ \E t \in Threads : Wait(t)
  \/ \E t \in Threads : InitValue(t)
  \/ \E t \in Threads : Store(t)
  \/ \E t \in Threads : Access(t)
  \/ \E t \in Threads : Finish(t)

SpecConc == Init /\ [][NextConc]_vars

\* ================================================================ claims
\* Helpers of the statements: the bit stream of a byte sequence, written
\* out bit by bit, and the number a run of bits spells.
ByteBits(b) ==
  << (b \div 128) % 2, (b \div 64) % 2, (b \div 32) % 2, (b \div 16) % 2,
     (b \div 8) % 2, (b \div 4) % 2, (b \div 2) % 2, b % 2 >>

RECURSIVE StreamOf(_)
StreamOf(x) == IF x = << >> THEN << >> ELSE ByteBits(Head(x)) \o StreamOf(Tail(x))

RECURSIVE NumberOf(_)
NumberOf(bits) ==
  IF bits = << >> THEN 0
  ELSE 2 * NumberOf(SubSeq(bits, 1, Len(bits) - 1)) + bits[Len(bits)]

Leftover(x) == (8 * Len(x)) % 11

Encoded == call.op = "encode"

Decoded == call.op = "decode"

\* C1  Round trip: decoding the string encode_rust returned for x gives
\* back exactly x, the same bytes and the same number of them.
RoundTrip ==
  (Decoded /\ call.linked) =>
    (call.ret.status = "ok" /\ call.ret.output = call.origin)

\* C1 witness: five bytes (three full groups and 7 leftover bits, sent
\* through the primary table) came back.
RoundTripSeen ==
  /\ Decoded /\ call.linked
  /\ Len(call.origin) = 5
  /\ 255 \in { call.origin[i] : i \in DOMAIN call.origin }
  /\ call.ret.output = call.origin

\* C2  Length relation: encode_rust(x) is 2 * floor(8 len / 11) characters
\* long, plus 2 for 7..10 leftover bits, 1 for 1..6, 0 for none.
LengthRelation ==
  Encoded =>
    /\ call.ret.status = "ok"
    /\ Len(call.ret.output) =
         2 * ((8 * Len(call.input)) \div 11)
           + (IF Leftover(call.input) \in 7..10 THEN 2
              ELSE IF Leftover(call.input) \in 1..6 THEN 1 ELSE 0)

\* C2 witness: nine bytes, 6 leftover bits, thirteen characters.
LengthRelationSeen ==
  Encoded /\ Len(call.input) = 9 /\ Len(call.ret.output) = 13

\* A string decode_rust must reject: a chunk the primary table does not
\* hold, or an odd final character the tail table does not hold.
Malformed(s) ==
  \/ \E k \in 1..(Len(s) \div 2) :
       SubSeq(s, 2 * k - 1, 2 * k) \notin DOMAIN resource.main.decode
  \/ Len(s) % 2 = 1 /\ << s[Len(s)] >> \notin DOMAIN resource.b64.decode

\* C3  Malformed input is rejected: decode_rust fails on the unknown
\* symbol (the lookup of a missing key) and returns no bytes at all.
MalformedRejected ==
  (Decoded /\ Malformed(call.input)) =>
    (call.ret.status = "panic" /\ call.ret.cause = "key" /\ call.ret.output = << >>)

\* C3 witness: a valid token, then a pair the table does not hold, then a
\* valid tail character.
MalformedRejectedSeen ==
  /\ Decoded
  /\ call.input = MainToken(1189) \o << 64, 0 >> \o B64Token(37)
  /\ call.ret.status = "panic"

\* C4  Empty input: encode_rust(b"") is "" and decode_rust("") is b"",
\* with no table access (no lazy static initialised), no read, no error.
EmptyInput ==
  ((Encoded \/ Decoded) /\ call.input = << >>) =>
    (call.ret = NewCall /\ call.first = {})

\* C4 witness: the empty string returned for the empty byte sequence was
\* decoded, before any table was built.
EmptyInputSeen ==
  /\ Decoded /\ call.linked /\ call.origin = << >>
  /\ call.ret.output = << >>
  /\ MAIN_CONVERSOR.once = "Incomplete" /\ B64_CONVERSOR.once = "Incomplete"

\* The symbols the encoder must look up for x, from the bit stream.
Symbols(x) ==
  LET bits == StreamOf(x)
      n    == Len(bits) \div 11
      t    == Len(bits) % 11
      rest == NumberOf(SubSeq(bits, 11 * n + 1, Len(bits)))
  IN  [ k \in 1..n |-> << "main", NumberOf(SubSeq(bits, 11 * k - 10, 11 * k)) >> ]
        \o (IF t = 0 THEN << >>
            ELSE IF t <= 6 THEN << << "b64", rest * 2 ^ (6 - t) >> >>
            ELSE << << "main", rest * 2 ^ (11 - t) >> >>)

RECURSIVE TokensOf(_)
TokensOf(syms) ==
  IF syms = << >> THEN << >>
  ELSE (IF Head(syms)[1] = "main"
          THEN resource.main.encode[Head(syms)[2] + 1]
          ELSE resource.b64.encode[Head(syms)[2] + 1]) \o TokensOf(Tail(syms))

\* C8  Symbol sequence: encode_rust looks up, in order, the 11-bit groups
\* of the big-endian bit stream, then one left-justified trailing symbol
\* (tail table for 1..6 leftover bits, primary for 7..10), and returns the
\* tokens of exactly these symbols.
SymbolSequence ==
  Encoded =>
    /\ call.ret.lookups = Symbols(call.input)
    /\ call.ret.output = TokensOf(Symbols(call.input))

\* C8 witness: two bytes, one full group and a 5-bit leftover whose
\* symbol is not zero.
SymbolSequenceSeen ==
  /\ Encoded /\ call.input = << 180, 79 >>
  /\ call.ret.lookups = << << "main", 1442 >>, << "b64", 30 >> >>

ValidString == Decoded /\ ~Malformed(call.input)

BitsWritten(s) == 11 * (Len(s) \div 2) + 6 * (Len(s) % 2)

\* C9 as stated: the partial byte is flushed zero-padded, so decode_rust
\* returns ceil(bits written / 8) bytes.
FlushedPartialByte ==
  ValidString =>
    (call.ret.status = "ok" /\ Len(call.ret.output) = (call.ret.bits + 7) \div 8)

\* C9 amended: decode_rust writes 11 bits per chunk and 6 for an odd final
\* character and returns floor(bits written / 8) bytes: the bits of an
\* unfinished byte are not in the output.
DroppedPartialByte ==
  ValidString =>
    /\ call.ret.status = "ok"
    /\ call.ret.bits = BitsWritten(call.input)
    /\ Len(call.ret.output) = call.ret.bits \div 8

\* C9 witness: one token, 11 bits written, one byte returned.
DroppedPartialByteSeen ==
  /\ Decoded /\ call.input = MainToken(2047)
  /\ call.ret.bits = 11 /\ call.ret.output = << 255 >>

\* C10  The encoder never hits an internal error: its reads consume
\* exactly 8 * len bits and every index it looks up is inside the table.
EncoderNoInternalError ==
  Encoded =>
    /\ call.ret.status = "ok"
    /\ call.ret.bits = 8 * Len(call.input)
    /\ \A k \in DOMAIN call.ret.lookups :
         call.ret.lookups[k][2] <
           (IF call.ret.lookups[k][1] = "main" THEN MAIN_SIZE ELSE B64_SIZE)

\* C10 witness: seven bytes of ones, a 1-bit leftover looked up as 32.
EncoderNoInternalErrorSeen ==
  /\ Encoded /\ call.input = [ i \in 1..7 |-> 255 ]
  /\ call.ret.lookups[6] = << "b64", 32 >>

Tables == { "main", "b64" }

Built(tbl) == conversor(resource[tbl], SizeOf(tbl))

\* C5  Determinism: an encode_rust call returns what an earlier call on
\* the same bytes returned, whatever calls came between and whichever of
\* the two found the tables built; the only state a call leaves behind is
\* a table built from its resource.
Deterministic ==
  /\ (Encoded /\ memo.set /\ call.input = memo.input) =>
       (call.ret.status = "ok" /\ call.ret.output = memo.output)
  /\ \A tbl \in Tables : Cell(tbl).once = "Incomplete" \/ Cell(tbl) = Built(tbl)

\* C5 witness: two bytes encoded by the call that built both tables, and
\* again by a later call that found them built, with the same result.
DeterministicSeen ==
  /\ Encoded /\ memo.set /\ call.input = memo.input
  /\ Len(call.input) = 2
  /\ memo.first = Tables /\ call.first = {}
  /\ call.ret.output = memo.output

Parses(json) == { "encode", "decode" } \subseteq DOMAIN json

WellSized(tbl) == Parses(resource[tbl]) /\ Len(resource[tbl].encode) = SizeOf(tbl)

Inverse(table) ==
  \A i \in DOMAIN table.encode :
    table.encode[i] \in DOMAIN table.decode /\ table.decode[table.encode[i]] = i - 1

\* C6 as stated: a table that was built satisfies decode[encode[i]] = i
\* for every index (a duplicate token or a decode mapping that is not the
\* inverse makes construction fail).
BuiltTableIsInverse ==
  \A tbl \in Tables : Cell(tbl).once = "Complete" => Inverse(Cell(tbl).value)

\* C6 amended: construction fails, and leaves no usable table, exactly
\* when the resource does not parse or its encode list does not hold
\* exactly `size` entries; otherwise the table is the resource's encode
\* list and decode mapping as they are.
TableValidation ==
  \A tbl \in Tables :
    /\ Cell(tbl).once \in { "Incomplete", "Complete", "Poisoned" }
    /\ Touches(call.ret, tbl) =>
         Cell(tbl).once = (IF WellSized(tbl) THEN "Complete" ELSE "Poisoned")
    /\ Cell(tbl).once = "Poisoned" =>
         (~WellSized(tbl) /\ Cell(tbl).value = NoTable)
    /\ (Touches(call.ret, tbl) /\ Cell(tbl).once = "Poisoned") =>
         (call.ret.status = "panic" /\ call.ret.cause = "init")
    /\ Cell(tbl).once = "Complete" =>
         /\ Len(Cell(tbl).value.encode) = SizeOf(tbl)
         /\ Cell(tbl).value.encode = resource[tbl].encode
         /\ Cell(tbl).value.decode = resource[tbl].decode

\* C6 witness: a tail resource of 65 entries; the first access panicked
\* and left the Once poisoned.
TableValidationSeen ==
  /\ Len(resource.b64.encode) = B64_SIZE + 1
  /\ B64_CONVERSOR.once = "Poisoned"
  /\ Touches(call.ret, "b64") /\ call.ret.status = "panic"

\* C7  Contended first access: each table's initialiser runs at most
\* once, a caller gets a table only once it is complete (never a partly
\* stored one), all callers get the same table, a complete table is never
\* changed, and every call returns what it returns on the built tables.
ContendedInit ==
  \A tbl \in Tables :
    /\ builds[tbl] <= 1
    /\ (builds[tbl] = 0) <=> (Cell(tbl).once = "Incomplete")
    /\ Cell(tbl).once = "Complete" => Cell(tbl) = Built(tbl)
    /\ \A t \in Threads :
         /\ threads[t].view[tbl] # Uninit =>
              (threads[t].view[tbl] = Built(tbl) /\ Cell(tbl).once = "Complete")
         /\ threads[t].pc = "done" =>
              threads[t].ret = Run(threads[t].job.op, threads[t].job.input,
                                   Built("main"), Built("b64"))

\* C7 witness: a caller that found the primary table's initialiser
\* running waited, then got the complete table and finished.
ContendedInitSeen ==
  \E t \in Threads :
    /\ threads[t].waited /\ threads[t].pc = "done"
    /\ threads[t].view.main = Built("main")
    /\ threads[t].ret.status = "ok"
    /\ builds.main = 1

====
